---- MODULE Spec2Model ----
(***************************************************************************)
(* Real-time messaging and presence of drs_backend: the Socket.IO server   *)
(* (handshake, presence maps, rooms, typing, sendMessage) and the chat     *)
(* routes it mounts at /api/chat (send, history, mark-read, conversations, *)
(* unread count) over the Message collection.                              *)
(*                                                                         *)
(* Identities stand for the 24-digit hexadecimal ObjectId strings: they    *)
(* are numbered in the lexicographic order of those strings.  A message    *)
(* content is a string abstracted to the number of leading whitespace      *)
(* characters, the length of its trimmed body and the number of trailing   *)
(* whitespace characters, which is all that trim(), length and the schema  *)
(* validators look at.                                                     *)
(***************************************************************************)
EXTENDS Integers, Sequences, FiniteSets, TLC

\* ------------------------------------------------------------------ bounds
MaxHandles == 3        \* socket connections ever opened
MaxSends == 2          \* sendMessage events ever handled
MaxReqs == 1           \* chat route requests ever received
NumUsers == 3          \* identities

\* ------------------------------------------------------- program constants
MaxLength == 5000      \* messageSchema.content.maxlength
HistoryLimit == 100    \* .limit(100) of GET /chat/messages/:userId

Users == 1..NumUsers
Handles == 1..MaxHandles
None == 0              \* an absent map entry / undefined / null
NoTs == -1             \* sendMessage payload without a timestamp

\* ---------------------------------------------------------------- contents
Str(l, b, t) == [def |-> TRUE, lead |-> l, body |-> b, trail |-> t]
Undefined == [def |-> FALSE, lead |-> 0, body |-> 0, trail |-> 0]
Hello == Str(0, 5, 0)
Blank == Str(3, 0, 0)          \* whitespace only
Empty == Str(0, 0, 0)
Padded == Str(1, 5, 1)
AtMax == Str(0, MaxLength, 0)
OverMax == Str(0, MaxLength + 1, 0)
PaddedOverMax == Str(0, MaxLength, 1)   \* over the maximum only before trim()

\* String.prototype.length
StrLength(c) == c.lead + c.body + c.trail

\* String.prototype.trim
Trim(c) == [c EXCEPT !.lead = 0, !.trail = 0]

\* ------------------------------------------------------------------- rooms
\* strings are sequences of UTF-16 code units
HexDigit(d) == IF d < 10 THEN 48 + d ELSE 87 + d

\* userId.toString(): the hexadecimal ObjectId string of an identity, all of
\* one length ("5f" followed by the identity's number in two hex digits)
IdToString(userId) == <<53, 102, HexDigit(userId \div 16), HexDigit(userId % 16)>>

\* the order of Array.prototype.sort without a comparator: by code units
LexLess(s, t) ==
    \/ \E i \in 1..Len(s) :
          /\ i <= Len(t)
          /\ \A j \in 1..(i - 1) : s[j] = t[j]
          /\ s[i] < t[i]
    \/ Len(s) < Len(t) /\ \A j \in 1..Len(s) : s[j] = t[j]

\* [a, b].sort()
SortPair(a, b) == IF LexLess(b, a) THEN <<b, a>> ELSE <<a, b>>

ChatPrefix == <<99, 104, 97, 116, 95>>     \* "chat_"
Underscore == <<95>>                       \* "_"

\* mutant: the two strings are joined as they come, unsorted
createRoomIdUnsorted(userId1, userId2) ==
    ChatPrefix \o IdToString(userId1) \o Underscore \o IdToString(userId2)

\* createRoomId: [userId1.toString(), userId2.toString()].sort(), then
\* `chat_${ids[0]}_${ids[1]}`
createRoomId(userId1, userId2) ==
    LET ids == SortPair(IdToString(userId1), IdToString(userId2))
    IN ChatPrefix \o ids[1] \o Underscore \o ids[2]

\* the room ids clients name in joinRoom / leaveRoom
Rooms == {createRoomId(1, 2), createRoomId(1, 3)}

VARIABLES
    conn,          \* handle -> "idle" | "open" | "closed" | "refused" (the transport)
    sockUser,      \* handle -> socket.userId
    joined,        \* handle -> rooms the socket is in (the adapter)
    onlineUsers,   \* userId -> socketId, None when the key is absent
    userSockets,   \* socketId -> userId, None when the key is absent
    userRooms,     \* userId -> [has, rooms], has = FALSE when the key is absent
    bcast,         \* the presence or typing broadcast of the last step, or NoBcast
    messages,      \* the Message collection, in insertion order; _id = index
    connections,   \* User.connections
    now,           \* the server clock
    sends,         \* the sendMessage handlers started, in order of invocation
    log,           \* newMessage / messageSent / messageError emitted, in order
    reqs,          \* the chat route requests received, in order of arrival
    connectionDocs, \* the Connection collection, in insertion order; _id = index
    connReqs,      \* the connection route requests received, in order of arrival
    wallets,       \* userId -> the user's Wallet document, has = FALSE when none
    withdrawals,   \* the WithdrawalRequest collection, in insertion order; _id = index
    walletReqs     \* the wallet and admin route requests received, in order of arrival

sockVars == <<conn, sockUser, joined, onlineUsers, userSockets, userRooms>>
storeVars == <<messages, connections, now>>
sendVars == <<sends, log>>
ledgerVars == <<connectionDocs, connReqs, wallets, withdrawals, walletReqs>>
vars == <<sockVars, bcast, storeVars, sendVars, reqs, ledgerVars>>

NoRoom == <<>>             \* no roomId in the payload of a broadcast
NoBcast == [ev |-> "none", userId |-> None, from |-> None, to |-> {}, roomId |-> NoRoom]
NoRooms == [has |-> FALSE, rooms |-> {}]

\* mutant: the broadcast reaches the emitting socket too
OthersAndSelf(h) == {k \in Handles : conn[k] = "open" \/ k = h}

\* the sockets a socket.broadcast.emit from h reaches
Others(h) == {k \in Handles : conn[k] = "open" /\ k # h}

\* the sockets io.to(roomId).emit reaches
InRoom(roomId) == {k \in Handles : conn[k] = "open" /\ roomId \in joined[k]}

\* the accepted connections: 1 with 2 and 2 with 3, so that 1 and 3 are not
InitialConnections ==
    [u \in Users |-> IF u = 1 THEN {2} ELSE IF u = 2 THEN {1, 3} \cap Users
                     ELSE IF u = 3 THEN {2} ELSE {}]

\* the Connection documents behind them
InitialConnectionDocs ==
    <<[requester |-> 1, recipient |-> 2, status |-> "accepted"],
      [requester |-> 2, recipient |-> 3, status |-> "accepted"]>>

\* a wallet as new Wallet({user, balance: 0, ...}) makes it
NewWallet ==
    [has |-> TRUE, balance |-> 0, totalEarned |-> 0, totalWithdrawn |-> 0,
     transactions |-> <<>>]
NoWallet == [NewWallet EXCEPT !.has = FALSE]

\* identity 1 has a wallet that one credit of 20 has been added to
InitialWallets ==
    [u \in Users |->
        IF u = 1
        THEN [NewWallet EXCEPT !.balance = 20, !.totalEarned = 20,
                 !.transactions = <<[type |-> "credit", amount |-> 20, balanceAfter |-> 20]>>]
        ELSE NoWallet]

Init ==
    /\ conn = [h \in Handles |-> "idle"]
    /\ sockUser = [h \in Handles |-> None]
    /\ joined = [h \in Handles |-> {}]
    /\ onlineUsers = [u \in Users |-> None]
    /\ userSockets = [h \in Handles |-> None]
    /\ userRooms = [u \in Users |-> NoRooms]
    /\ bcast = NoBcast
    /\ messages = <<>>
    /\ connections = InitialConnections
    /\ now = 1
    /\ sends = <<>>
    /\ log = <<>>
    /\ reqs = <<>>
    /\ connectionDocs = InitialConnectionDocs
    /\ connReqs = <<>>
    /\ wallets = InitialWallets
    /\ withdrawals = <<>>
    /\ walletReqs = <<>>

\* ------------------------------------------------------ connection lifecycle
\* socket ids are fresh: the next connection gets the least unused handle
NextHandle == Cardinality({h \in Handles : conn[h] # "idle"}) + 1

\* io.on('connection'): the handshake token verified for userId
Connect(userId) ==
    /\ NextHandle \in Handles
    /\ LET h == NextHandle IN
        /\ conn' = [conn EXCEPT ![h] = "open"]
        /\ sockUser' = [sockUser EXCEPT ![h] = userId]
        /\ onlineUsers' = [onlineUsers EXCEPT ![userId] = h]
        /\ userSockets' = [userSockets EXCEPT ![h] = userId]
        /\ userRooms' = [userRooms EXCEPT ![userId] = [has |-> TRUE, rooms |-> {}]]
        /\ bcast' = [ev |-> "userOnline", userId |-> userId, from |-> h, to |-> Others(h),
                     roomId |-> NoRoom]
    /\ UNCHANGED <<ledgerVars, joined, storeVars, sendVars, reqs>>

\* a handshake token: absent, or a JWT for userId with a signature that is
\* good or not and an expiry that has passed or not
NoToken == [given |-> FALSE, signed |-> FALSE, expired |-> FALSE, userId |-> None]
Token(userId, signed, expired) ==
    [given |-> TRUE, signed |-> signed, expired |-> expired, userId |-> userId]

\* jwt.verify(token, process.env.JWT_SECRET) returns rather than throws
Verifies(token) == token.signed /\ ~token.expired

\* the middleware calls next() without an error
Authenticated(token) == token.given /\ Verifies(token)

\* mutant: the token is checked in the connection handler, after the socket
\* has been entered in userSockets
RefuseLate(token) ==
    /\ NextHandle \in Handles
    /\ ~Authenticated(token)
    /\ conn' = [conn EXCEPT ![NextHandle] = "refused"]
    /\ userSockets' = [userSockets EXCEPT ![NextHandle] = token.userId]
    /\ bcast' = NoBcast
    /\ UNCHANGED <<ledgerVars, sockUser, joined, onlineUsers, userRooms, storeVars, sendVars, reqs>>

\* io.use: next(new Error('Authentication error: ...')); the connection
\* event is not emitted for the socket
Refuse(token) ==
    /\ NextHandle \in Handles
    /\ ~Authenticated(token)
    /\ conn' = [conn EXCEPT ![NextHandle] = "refused"]
    /\ bcast' = NoBcast
    /\ UNCHANGED <<ledgerVars, sockUser, joined, onlineUsers, userSockets, userRooms,
                   storeVars, sendVars, reqs>>

\* mutant: the disconnect handler leaves onlineUsers alone
KeepOnline(h, userId) == onlineUsers

\* what the disconnect handler leaves of onlineUsers
DeregisterOnline(h, userId) == [onlineUsers EXCEPT ![userId] = None]

\* the userOffline broadcast of the disconnect handler
OfflineBroadcast(h, userId) ==
    [ev |-> "userOffline", userId |-> userId, from |-> h, to |-> Others(h),
     roomId |-> NoRoom]

\* socket.on('disconnect'); the socket has left its rooms by then
Disconnect(h) ==
    /\ conn[h] = "open"
    /\ LET userId == sockUser[h] IN
        /\ conn' = [conn EXCEPT ![h] = "closed"]
        /\ joined' = [joined EXCEPT ![h] = {}]
        /\ onlineUsers' = DeregisterOnline(h, userId)
        /\ userSockets' = [userSockets EXCEPT ![h] = None]
        /\ userRooms' = [userRooms EXCEPT ![userId] = NoRooms]
        /\ bcast' = OfflineBroadcast(h, userId)
    /\ UNCHANGED <<ledgerVars, sockUser, storeVars, sendVars, reqs>>

\* socket.on('joinRoom')
JoinRoom(h, roomId) ==
    /\ conn[h] = "open"
    /\ LET userId == sockUser[h] IN
        /\ joined' = [joined EXCEPT ![h] = @ \cup {roomId}]
        /\ userRooms' = IF userRooms[userId].has
                        THEN [userRooms EXCEPT ![userId].rooms = @ \cup {roomId}]
                        ELSE userRooms
    /\ bcast' = NoBcast
    /\ UNCHANGED <<ledgerVars, conn, sockUser, onlineUsers, userSockets, storeVars, sendVars, reqs>>

\* socket.on('leaveRoom')
LeaveRoom(h, roomId) ==
    /\ conn[h] = "open"
    /\ LET userId == sockUser[h] IN
        /\ joined' = [joined EXCEPT ![h] = @ \ {roomId}]
        /\ userRooms' = IF userRooms[userId].has
                        THEN [userRooms EXCEPT ![userId].rooms = @ \ {roomId}]
                        ELSE userRooms
    /\ bcast' = NoBcast
    /\ UNCHANGED <<ledgerVars, conn, sockUser, onlineUsers, userSockets, storeVars, sendVars, reqs>>

\* ----------------------------------------------------------------- typing
\* mutant: io.to(roomId) in place of socket.to(roomId)
WholeRoom(h, roomId) == InRoom(roomId)

\* the sockets socket.to(roomId).emit reaches: the room but the socket itself
RoomOthers(h, roomId) == InRoom(roomId) \ {h}

\* socket.on('typing') / socket.on('stopTyping')
NotifyTyping(h, roomId, ev) ==
    /\ conn[h] = "open"
    /\ bcast' = [ev |-> ev, userId |-> sockUser[h], from |-> h,
                 to |-> RoomOthers(h, roomId), roomId |-> roomId]
    /\ UNCHANGED <<ledgerVars, sockVars, storeVars, sendVars, reqs>>

Typing(h, roomId) == NotifyTyping(h, roomId, "userTyping")

StopTyping(h, roomId) == NotifyTyping(h, roomId, "userStoppedTyping")

\* ------------------------------------------------------------ sendMessage
\* mutant: the sender is taken from the payload (here: the recipient field)
MessageFromPayload(userId, recipient, content, createdAt) ==
    [sender |-> recipient, recipient |-> recipient, content |-> content,
     createdAt |-> createdAt, read |-> FALSE, readAt |-> None]

\* the document Message.create is given: sender userId, read false, and
\* createdAt: timestamp || new Date()
NewMessage(userId, recipient, content, createdAt) ==
    [sender |-> userId, recipient |-> recipient, content |-> content,
     createdAt |-> createdAt, read |-> FALSE, readAt |-> None]

\* messageSchema's validators: sender and recipient required ObjectIds,
\* content a required string (not the empty one) of at most maxlength
ValidDoc(doc) ==
    /\ doc.sender \in Users
    /\ doc.recipient \in Users
    /\ doc.content.def
    /\ StrLength(doc.content) > 0
    /\ StrLength(doc.content) <= MaxLength

NoData == [id |-> None, sender |-> None, recipient |-> None, content |-> Undefined,
           read |-> FALSE]

\* messageData, built from the document Message.create returned
MessageData(op) ==
    [id |-> op.msg, sender |-> op.doc.sender, recipient |-> op.doc.recipient,
     content |-> op.doc.content, read |-> op.doc.read]

Emit(ev, i, data, to) == [ev |-> ev, op |-> i, data |-> data, to |-> to]

\* mutant: the error is emitted to the pair's room as well as to the socket
ErrorToRoom(op) == {op.h} \cup InRoom(createRoomId(op.doc.sender, op.doc.recipient))

\* the sockets the catch block's messageError goes to: socket.emit
ErrorTargets(op) == {op.h}

\* the catch block of the sendMessage handler
CaughtError(i, op) == <<Emit("messageError", i, NoData, ErrorTargets(op))>>

\* mutant: socket.to(roomId) in place of io.to(roomId) leaves the sender out
RoomButSender(op) == InRoom(createRoomId(op.doc.sender, op.doc.recipient)) \ {op.h}

\* a client timestamp that stands for a set of sockets: bit k - 1 of the
\* number is set for socket k, above a leading bit that keeps it positive
Stamped(t) == {k \in Handles : (t \div (2 ^ (k - 1))) % 2 = 1}
Stamps == (2 ^ MaxHandles)..(2 ^ (MaxHandles + 1) - 1)

\* mutant: the room's members are those of the time the handler was called
\* (which the client's timestamp records), not those at the emit
CachedTargets(op) == Stamped(op.doc.createdAt)

\* the sockets io.to(roomId).emit('newMessage') reaches for this op
NewMessageTargets(op) == InRoom(createRoomId(op.doc.sender, op.doc.recipient))

\* mutant: the handler gives up when its socket has disconnected meanwhile
DeliveryIfConnected(i, op) ==
    IF conn[op.h] = "open"
    THEN <<Emit("newMessage", i, MessageData(op), NewMessageTargets(op)),
           Emit("messageSent", i, MessageData(op), {op.h})>>
    ELSE <<>>

\* the handler after populate: newMessage to the room, messageSent to the socket
Delivery(i, op) ==
    <<Emit("newMessage", i, MessageData(op), NewMessageTargets(op)),
      Emit("messageSent", i, MessageData(op), {op.h})>>

\* mutant: the message is delivered before Message.create has resolved
EagerDelivery(i, op) == Delivery(i, [op EXCEPT !.msg = Len(messages) + 1])

\* what the handler emits between being called and Message.create resolving
BeforeCreate(i, op) == <<>>

\* socket.on('sendMessage') up to its first await: content.substring throws
\* on a missing content (caught: messageError), otherwise Message.create is
\* called and the handler is suspended
SendMessage(h, recipient, content, timestamp) ==
    /\ conn[h] = "open"
    /\ LET i == Len(sends) + 1
           createdAt == IF timestamp = NoTs THEN now ELSE timestamp
           op == [h |-> h, doc |-> NewMessage(sockUser[h], recipient, content, createdAt),
                  pc |-> "create", msg |-> None]
       IN IF content.def
          THEN /\ sends' = Append(sends, op)
               /\ now' = IF timestamp = NoTs THEN now + 1 ELSE now
               /\ log' = log \o BeforeCreate(i, op)
          ELSE /\ sends' = Append(sends, [op EXCEPT !.pc = "error"])
               /\ log' = log \o CaughtError(i, op)
               /\ now' = now
    /\ bcast' = NoBcast
    /\ UNCHANGED <<ledgerVars, sockVars, messages, connections, reqs>>

\* Message.create resolves: the document is validated and inserted
SendCreateOk(i) ==
    /\ sends[i].pc = "create"
    /\ ValidDoc(sends[i].doc)
    /\ messages' = Append(messages, sends[i].doc)
    /\ sends' = [sends EXCEPT ![i].pc = "populate", ![i].msg = Len(messages) + 1]
    /\ bcast' = NoBcast
    /\ UNCHANGED <<ledgerVars, sockVars, connections, now, log, reqs>>

\* Message.create rejects (validation, or the store is unavailable): the
\* catch block emits messageError on the sending socket
SendCreateFail(i) ==
    /\ sends[i].pc = "create"
    /\ sends' = [sends EXCEPT ![i].pc = "error"]
    /\ log' = log \o CaughtError(i, sends[i])
    /\ bcast' = NoBcast
    /\ UNCHANGED <<ledgerVars, sockVars, storeVars, reqs>>

\* message.populate resolves: newMessage to the room, messageSent to the sender
SendPopulateOk(i) ==
    /\ sends[i].pc = "populate"
    /\ sends' = [sends EXCEPT ![i].pc = "done"]
    /\ log' = log \o Delivery(i, sends[i])
    /\ bcast' = NoBcast
    /\ UNCHANGED <<ledgerVars, sockVars, storeVars, reqs>>

\* message.populate rejects, or a populated party is null: caught, messageError
SendPopulateFail(i) ==
    /\ sends[i].pc = "populate"
    /\ sends' = [sends EXCEPT ![i].pc = "error"]
    /\ log' = log \o CaughtError(i, sends[i])
    /\ bcast' = NoBcast
    /\ UNCHANGED <<ledgerVars, sockVars, storeVars, reqs>>

\* ------------------------------------------------------------- chat routes
MsgIds == DOMAIN messages

\* Message.find({$or: [{sender: a, recipient: b}, {sender: b, recipient: a}]})
Between(a, b) ==
    {m \in MsgIds : \/ messages[m].sender = a /\ messages[m].recipient = b
                    \/ messages[m].sender = b /\ messages[m].recipient = a}

\* Message.find({$or: [{sender: u}, {recipient: u}]})
Involving(u) == {m \in MsgIds : messages[m].sender = u \/ messages[m].recipient = u}

\* the filter {sender: from, recipient: to, read: false}
UnreadFrom(from, to) ==
    {m \in MsgIds : messages[m].sender = from /\ messages[m].recipient = to
                    /\ ~messages[m].read}

\* the filter {recipient: u, read: false} of GET /chat/unread-count
UnreadOf(u) == {m \in MsgIds : messages[m].recipient = u /\ ~messages[m].read}

\* sort({createdAt: 1}) / sort({createdAt: -1}); equal dates in insertion order
Precedes(m, n, desc) ==
    \/ IF desc THEN messages[m].createdAt > messages[n].createdAt
               ELSE messages[m].createdAt < messages[n].createdAt
    \/ messages[m].createdAt = messages[n].createdAt /\ m <= n

RECURSIVE Sorted(_, _)
Sorted(S, desc) ==
    IF S = {} THEN <<>>
    ELSE LET m == CHOOSE x \in S : \A y \in S : Precedes(x, y, desc)
         IN <<m>> \o Sorted(S \ {m}, desc)

\* .limit(n)
Limit(seq, n) == IF Len(seq) <= n THEN seq ELSE SubSeq(seq, 1, n)

\* the conversationPartners Set filled by messages.forEach, in insertion order
RECURSIVE Partners(_, _, _)
Partners(u, found, acc) ==
    IF found = <<>> THEN acc
    ELSE LET msg == messages[Head(found)]
             seen == {acc[j] : j \in DOMAIN acc}
             a1 == IF msg.sender # u /\ msg.sender \notin seen
                   THEN Append(acc, msg.sender) ELSE acc
             seen1 == {a1[j] : j \in DOMAIN a1}
             a2 == IF msg.recipient # u /\ msg.recipient \notin seen1
                   THEN Append(a1, msg.recipient) ELSE a1
         IN Partners(u, Tail(found), a2)

\* mutant: findOne sorted by createdAt ascending, the oldest of the pair
ConversationOldest(u, partnerId) ==
    LET first == Sorted(Between(u, partnerId), FALSE)
    IN [partner |-> partnerId,
        lastMessage |-> IF first = <<>> THEN None ELSE Head(first),
        unreadCount |-> Cardinality(UnreadFrom(partnerId, u))]

\* mutant: the unread filter with sender and recipient exchanged
ConversationSwapped(u, partnerId) ==
    [partner |-> partnerId, lastMessage |-> None,
     unreadCount |-> Cardinality({m \in DOMAIN messages :
                                     /\ messages[m].sender = u
                                     /\ messages[m].recipient = partnerId
                                     /\ ~messages[m].read})]

\* one element of the Promise.all of GET /chat/conversations: findOne of the
\* pair sorted by createdAt descending, countDocuments of the unread
Conversation(u, partnerId) ==
    LET last == Sorted(Between(u, partnerId), TRUE)
    IN [partner |-> partnerId,
        lastMessage |-> IF last = <<>> THEN None ELSE Head(last),
        unreadCount |-> Cardinality(UnreadFrom(partnerId, u))]

\* the time conversations.sort compares: lastMessage.createdAt, or new Date(0)
LastTime(c) == IF c.lastMessage = None THEN 0 ELSE messages[c.lastMessage].createdAt

\* conversations.sort((a, b) => timeB - timeA): stable, latest first
RECURSIVE SortConversations(_)
SortConversations(cs) ==
    IF cs = <<>> THEN <<>>
    ELSE LET j == CHOOSE x \in DOMAIN cs :
                      /\ \A y \in DOMAIN cs : LastTime(cs[x]) >= LastTime(cs[y])
                      /\ \A y \in 1..(x - 1) : LastTime(cs[y]) < LastTime(cs[x])
             others == [y \in 1..(Len(cs) - 1) |-> IF y < j THEN cs[y] ELSE cs[y + 1]]
         IN <<cs[j]>> \o SortConversations(others)

Request(kind, userId, partner, content, pc) ==
    [kind |-> kind, userId |-> userId, partner |-> partner, content |-> content,
     pc |-> pc, status |-> 0, msg |-> None, found |-> <<>>, result |-> <<>>,
     count |-> 0, before |-> {}, seen |-> 0]

Respond(k, status) == [reqs EXCEPT ![k].pc = "done", ![k].status = status]

\* router.post('/send') up to User.findById: 400 on a missing or blank content
HttpSend(userId, recipientId, content) ==
    /\ reqs' = Append(reqs,
          IF ~content.def \/ Trim(content) = Empty
          THEN [Request("send", userId, recipientId, content, "done") EXCEPT !.status = 400]
          ELSE Request("send", userId, recipientId, content, "auth"))
    /\ bcast' = NoBcast
    /\ UNCHANGED <<ledgerVars, sockVars, storeVars, sendVars>>

\* mutant: the connection check always passes
AnyoneConnected(userId, id) == TRUE

\* currentUser.connections.some(conn => conn.toString() === id)
IsConnected(userId, id) == id \in connections[userId]

\* router.post('/send') after User.findById: 403 unless connected
HttpSendAuth(k) ==
    /\ reqs[k].kind = "send" /\ reqs[k].pc = "auth"
    /\ reqs' = IF IsConnected(reqs[k].userId, reqs[k].partner)
               THEN [reqs EXCEPT ![k].pc = "save"]
               ELSE Respond(k, 403)
    /\ bcast' = NoBcast
    /\ UNCHANGED <<ledgerVars, sockVars, storeVars, sendVars>>

\* new Message({sender, recipient, content: content.trim()}), saved at `now`
HttpDoc(r) == NewMessage(r.userId, r.partner, Trim(r.content), now)

\* message.save() resolves, then populate: 201, or 500 when populate rejects
HttpSendSave(k, populated) ==
    /\ reqs[k].kind = "send" /\ reqs[k].pc = "save"
    /\ ValidDoc(HttpDoc(reqs[k]))
    /\ messages' = Append(messages, HttpDoc(reqs[k]))
    /\ now' = now + 1
    /\ reqs' = [Respond(k, IF populated THEN 201 ELSE 500) EXCEPT ![k].msg = Len(messages) + 1]
    /\ bcast' = NoBcast
    /\ UNCHANGED <<ledgerVars, sockVars, connections, sendVars>>

\* router.get('/messages/:userId') up to User.findById
GetHistory(userId, partner) ==
    /\ reqs' = Append(reqs,
          [Request("history", userId, partner, Undefined, "auth")
              EXCEPT !.before = UnreadFrom(partner, userId)])
    /\ bcast' = NoBcast
    /\ UNCHANGED <<ledgerVars, sockVars, storeVars, sendVars>>

\* 403 unless connected, else Message.find is issued
HistoryAuth(k) ==
    /\ reqs[k].kind = "history" /\ reqs[k].pc = "auth"
    /\ reqs' = IF IsConnected(reqs[k].userId, reqs[k].partner)
               THEN [reqs EXCEPT ![k].pc = "find"]
               ELSE Respond(k, 403)
    /\ bcast' = NoBcast
    /\ UNCHANGED <<ledgerVars, sockVars, storeVars, sendVars>>

\* Message.find(...).sort({createdAt: 1}).limit(100) resolves
HistoryFind(k) ==
    /\ reqs[k].kind = "history" /\ reqs[k].pc = "find"
    /\ reqs' = [reqs EXCEPT ![k].pc = "update",
                  ![k].found = Limit(Sorted(Between(reqs[k].userId, reqs[k].partner), FALSE),
                                     HistoryLimit)]
    /\ bcast' = NoBcast
    /\ UNCHANGED <<ledgerVars, sockVars, storeVars, sendVars>>

\* mutant: the updateMany filter without its sender
MarkAllToUser(userId, partner) == UnreadOf(userId)

\* the messages the updateMany of GET /chat/messages/:userId matches
MarkFilter(userId, partner) == UnreadFrom(partner, userId)

\* mutant: the update stamps createdAt as well
RestampOnUpdate(S) ==
    [m \in MsgIds |-> IF m \in S
                      THEN [messages[m] EXCEPT !.read = TRUE, !.readAt = now, !.createdAt = now]
                      ELSE messages[m]]

\* Message.updateMany(filter, {read: true, readAt: new Date()})
MarkRead(S) ==
    [m \in MsgIds |-> IF m \in S THEN [messages[m] EXCEPT !.read = TRUE, !.readAt = now]
                      ELSE messages[m]]

\* updateMany resolves and the messages found are returned
HistoryUpdate(k) ==
    /\ reqs[k].kind = "history" /\ reqs[k].pc = "update"
    /\ messages' = MarkRead(MarkFilter(reqs[k].userId, reqs[k].partner))
    /\ reqs' = Respond(k, 200)
    /\ bcast' = NoBcast
    /\ UNCHANGED <<ledgerVars, sockVars, connections, now, sendVars>>

\* router.get('/conversations') up to Message.find
ListConversations(userId) ==
    /\ reqs' = Append(reqs, Request("conversations", userId, None, Undefined, "find"))
    /\ bcast' = NoBcast
    /\ UNCHANGED <<ledgerVars, sockVars, storeVars, sendVars>>

\* Message.find(...).sort({createdAt: -1}) resolves: the partners are collected
ConversationsFind(k) ==
    /\ reqs[k].kind = "conversations" /\ reqs[k].pc = "find"
    /\ reqs' = [reqs EXCEPT ![k].pc = "aggregate", ![k].seen = Len(messages),
                  ![k].found = Partners(reqs[k].userId,
                                        Sorted(Involving(reqs[k].userId), TRUE), <<>>)]
    /\ bcast' = NoBcast
    /\ UNCHANGED <<ledgerVars, sockVars, storeVars, sendVars>>

\* the Promise.all resolves; the conversations are sorted and returned
ConversationsAggregate(k) ==
    /\ reqs[k].kind = "conversations" /\ reqs[k].pc = "aggregate"
    /\ reqs' = [Respond(k, 200) EXCEPT ![k].result =
                  SortConversations([j \in DOMAIN reqs[k].found |->
                                        Conversation(reqs[k].userId, reqs[k].found[j])])]
    /\ bcast' = NoBcast
    /\ UNCHANGED <<ledgerVars, sockVars, storeVars, sendVars>>

\* router.put('/mark-read/:messageId') up to Message.findById
MarkReadRequest(userId, messageId) ==
    /\ reqs' = Append(reqs,
          [Request("markRead", userId, None, Undefined, "find") EXCEPT !.msg = messageId])
    /\ bcast' = NoBcast
    /\ UNCHANGED <<ledgerVars, sockVars, storeVars, sendVars>>

\* Message.findById resolves: 404 when there is no such message, 403 when
\* its recipient is not the caller, else read and readAt are set on the
\* document and message.save() is issued
MarkReadFind(k) ==
    /\ reqs[k].kind = "markRead" /\ reqs[k].pc = "find"
    /\ reqs' = IF reqs[k].msg \notin MsgIds THEN Respond(k, 404)
               ELSE IF messages[reqs[k].msg].recipient # reqs[k].userId THEN Respond(k, 403)
               ELSE [reqs EXCEPT ![k].pc = "save", ![k].seen = now]
    /\ bcast' = NoBcast
    /\ UNCHANGED <<ledgerVars, sockVars, storeVars, sendVars>>

\* message.save() resolves: the modified paths read and readAt are written
MarkReadSave(k) ==
    /\ reqs[k].kind = "markRead" /\ reqs[k].pc = "save"
    /\ messages' = [messages EXCEPT ![reqs[k].msg].read = TRUE,
                                    ![reqs[k].msg].readAt = reqs[k].seen]
    /\ reqs' = Respond(k, 200)
    /\ bcast' = NoBcast
    /\ UNCHANGED <<ledgerVars, sockVars, connections, now, sendVars>>

\* router.get('/unread-count'): one countDocuments
UnreadCount(userId) ==
    /\ reqs' = Append(reqs,
          [Request("unread", userId, None, Undefined, "done")
              EXCEPT !.status = 200, !.count = Cardinality(UnreadOf(userId))])
    /\ bcast' = NoBcast
    /\ UNCHANGED <<ledgerVars, sockVars, storeVars, sendVars>>

\* a store call of a route rejects (the store is unavailable): caught, 500
RequestFail(k) ==
    /\ reqs[k].pc # "done"
    /\ reqs' = Respond(k, 500)
    /\ bcast' = NoBcast
    /\ UNCHANGED <<ledgerVars, sockVars, storeVars, sendVars>>

\* ---------------------------------------------------- the connections routes
ConnRequest(kind, userId, target, pc) ==
    [kind |-> kind, userId |-> userId, target |-> target, pc |-> pc,
     status |-> 0, doc |-> None]

ConnRespond(k, status) == [connReqs EXCEPT ![k].pc = "done", ![k].status = status]

\* $or: [{requester: a, recipient: b}, {requester: b, recipient: a}]
DocsBetween(a, b) ==
    {d \in DOMAIN connectionDocs :
        \/ connectionDocs[d].requester = a /\ connectionDocs[d].recipient = b
        \/ connectionDocs[d].requester = b /\ connectionDocs[d].recipient = a}

\* the document a findOne returns: the first in insertion order
First(S) == CHOOSE d \in S : \A e \in S : d <= e

\* router.post('/request') up to User.findById: 400 on a request to oneself
RequestConnection(userId, recipientId) ==
    /\ connReqs' = Append(connReqs,
          IF recipientId = userId
          THEN [ConnRequest("request", userId, recipientId, "done") EXCEPT !.status = 400]
          ELSE ConnRequest("request", userId, recipientId, "recipient"))
    /\ bcast' = NoBcast
    /\ UNCHANGED <<sockVars, storeVars, sendVars, reqs, connectionDocs, wallets,
                   withdrawals, walletReqs>>

\* router.post('/request') after User.findById: 404 when there is no such user
RequestFindRecipient(k) ==
    /\ connReqs[k].kind = "request" /\ connReqs[k].pc = "recipient"
    /\ connReqs' = IF connReqs[k].target \in Users
                   THEN [connReqs EXCEPT ![k].pc = "existing"]
                   ELSE ConnRespond(k, 404)
    /\ bcast' = NoBcast
    /\ UNCHANGED <<sockVars, storeVars, sendVars, reqs, connectionDocs, wallets,
                   withdrawals, walletReqs>>

\* router.post('/request') after Connection.findOne: 400 when the pair has a document
RequestFindExisting(k) ==
    /\ connReqs[k].kind = "request" /\ connReqs[k].pc = "existing"
    /\ connReqs' = IF DocsBetween(connReqs[k].userId, connReqs[k].target) # {}
                   THEN ConnRespond(k, 400)
                   ELSE [connReqs EXCEPT ![k].pc = "save"]
    /\ bcast' = NoBcast
    /\ UNCHANGED <<sockVars, storeVars, sendVars, reqs, connectionDocs, wallets,
                   withdrawals, walletReqs>>

\* connection.save() of the new pending document
RequestSave(k) ==
    /\ connReqs[k].kind = "request" /\ connReqs[k].pc = "save"
    /\ connectionDocs' = Append(connectionDocs,
          [requester |-> connReqs[k].userId, recipient |-> connReqs[k].target,
           status |-> "pending"])
    /\ connReqs' = [connReqs EXCEPT ![k].pc = "notify", ![k].doc = Len(connectionDocs) + 1]
    /\ bcast' = NoBcast
    /\ UNCHANGED <<sockVars, storeVars, sendVars, reqs, wallets, withdrawals, walletReqs>>

\* recipient.save() of the pushed pendingRequests entry: 201
RequestNotify(k) ==
    /\ connReqs[k].kind = "request" /\ connReqs[k].pc = "notify"
    /\ connReqs' = ConnRespond(k, 201)
    /\ bcast' = NoBcast
    /\ UNCHANGED <<sockVars, storeVars, sendVars, reqs, connectionDocs, wallets,
                   withdrawals, walletReqs>>

\* router.post('/accept/:connectionId') up to Connection.findById
Accept(userId, connectionId) ==
    /\ connReqs' = Append(connReqs, ConnRequest("accept", userId, connectionId, "find"))
    /\ bcast' = NoBcast
    /\ UNCHANGED <<sockVars, storeVars, sendVars, reqs, connectionDocs, wallets,
                   withdrawals, walletReqs>>

\* after Connection.findById: 404 without a document, 403 unless the caller is
\* its recipient, 400 unless it is pending
AcceptFind(k) ==
    /\ connReqs[k].kind = "accept" /\ connReqs[k].pc = "find"
    /\ connReqs' =
          IF connReqs[k].target \notin DOMAIN connectionDocs THEN ConnRespond(k, 404)
          ELSE IF connectionDocs[connReqs[k].target].recipient # connReqs[k].userId
               THEN ConnRespond(k, 403)
          ELSE IF connectionDocs[connReqs[k].target].status # "pending"
               THEN ConnRespond(k, 400)
          ELSE [connReqs EXCEPT ![k].pc = "save", ![k].doc = connReqs[k].target]
    /\ bcast' = NoBcast
    /\ UNCHANGED <<sockVars, storeVars, sendVars, reqs, connectionDocs, wallets,
                   withdrawals, walletReqs>>

\* connection.status = 'accepted'; connection.save()
AcceptSave(k) ==
    /\ connReqs[k].kind = "accept" /\ connReqs[k].pc = "save"
    /\ connectionDocs' = [connectionDocs EXCEPT ![connReqs[k].doc].status = "accepted"]
    /\ connReqs' = [connReqs EXCEPT ![k].pc = "requester"]
    /\ bcast' = NoBcast
    /\ UNCHANGED <<sockVars, storeVars, sendVars, reqs, wallets, withdrawals, walletReqs>>

\* User.findByIdAndUpdate(a, {$push: {connections: b}})
Push(a, b) == [connections EXCEPT ![a] = @ \cup {b}]

\* User.findByIdAndUpdate(a, {$pull: {connections: b}})
Pull(a, b) == [connections EXCEPT ![a] = @ \ {b}]

\* the update of the requester's list
AcceptRequester(k) ==
    /\ connReqs[k].kind = "accept" /\ connReqs[k].pc = "requester"
    /\ connections' = Push(connectionDocs[connReqs[k].doc].requester,
                           connectionDocs[connReqs[k].doc].recipient)
    /\ connReqs' = [connReqs EXCEPT ![k].pc = "recipient"]
    /\ bcast' = NoBcast
    /\ UNCHANGED <<sockVars, messages, now, sendVars, reqs, connectionDocs, wallets,
                   withdrawals, walletReqs>>

\* the update of the recipient's list: 200
AcceptRecipient(k) ==
    /\ connReqs[k].kind = "accept" /\ connReqs[k].pc = "recipient"
    /\ connections' = Push(connectionDocs[connReqs[k].doc].recipient,
                           connectionDocs[connReqs[k].doc].requester)
    /\ connReqs' = ConnRespond(k, 200)
    /\ bcast' = NoBcast
    /\ UNCHANGED <<sockVars, messages, now, sendVars, reqs, connectionDocs, wallets,
                   withdrawals, walletReqs>>

\* router.delete('/:userId') up to the first User.findByIdAndUpdate
Remove(userId, otherId) ==
    /\ connReqs' = Append(connReqs, ConnRequest("remove", userId, otherId, "own"))
    /\ bcast' = NoBcast
    /\ UNCHANGED <<sockVars, storeVars, sendVars, reqs, connectionDocs, wallets,
                   withdrawals, walletReqs>>

\* the pull from the caller's list
RemoveOwn(k) ==
    /\ connReqs[k].kind = "remove" /\ connReqs[k].pc = "own"
    /\ connections' = Pull(connReqs[k].userId, connReqs[k].target)
    /\ connReqs' = [connReqs EXCEPT ![k].pc = "other"]
    /\ bcast' = NoBcast
    /\ UNCHANGED <<sockVars, messages, now, sendVars, reqs, connectionDocs, wallets,
                   withdrawals, walletReqs>>

\* the pull from the other user's list
RemoveOther(k) ==
    /\ connReqs[k].kind = "remove" /\ connReqs[k].pc = "other"
    /\ connections' = Pull(connReqs[k].target, connReqs[k].userId)
    /\ connReqs' = [connReqs EXCEPT ![k].pc = "record"]
    /\ bcast' = NoBcast
    /\ UNCHANGED <<sockVars, messages, now, sendVars, reqs, connectionDocs, wallets,
                   withdrawals, walletReqs>>

\* Connection.findOneAndUpdate({$or: ...}, {status: 'rejected'}): 200
RemoveRecord(k) ==
    /\ connReqs[k].kind = "remove" /\ connReqs[k].pc = "record"
    /\ connectionDocs' =
          IF DocsBetween(connReqs[k].userId, connReqs[k].target) = {} THEN connectionDocs
          ELSE [connectionDocs EXCEPT
                   ![First(DocsBetween(connReqs[k].userId, connReqs[k].target))].status = "rejected"]
    /\ connReqs' = ConnRespond(k, 200)
    /\ bcast' = NoBcast
    /\ UNCHANGED <<sockVars, storeVars, sendVars, reqs, wallets, withdrawals, walletReqs>>

\* a store call of a connections route rejects: caught, 500
ConnFail(k) ==
    /\ connReqs[k].pc # "done"
    /\ connReqs' = ConnRespond(k, 500)
    /\ bcast' = NoBcast
    /\ UNCHANGED <<sockVars, storeVars, sendVars, reqs, connectionDocs, wallets,
                   withdrawals, walletReqs>>

\* ------------------------------------------------- wallet and admin routes
nonWalletVars == <<sockVars, storeVars, sendVars, reqs, connectionDocs, connReqs>>

WalletRequest(kind, userId, amount, target, pc) ==
    [kind |-> kind, userId |-> userId, amount |-> amount, target |-> target,
     pc |-> pc, status |-> 0, wallet |-> NoWallet, deducted |-> FALSE]

WalletRespond(k, status) == [walletReqs EXCEPT ![k].pc = "done", ![k].status = status]

Transaction(type, amount, balanceAfter) ==
    [type |-> type, amount |-> amount, balanceAfter |-> balanceAfter]

\* walletSchema.methods.addCredit on the loaded document w, before its save()
addCredit(w, amount) ==
    [w EXCEPT !.balance = @ + amount, !.totalEarned = @ + amount,
              !.transactions = Append(@, Transaction("credit", amount, w.balance + amount))]

\* walletSchema.methods.deductAmount on the loaded document w, before its save();
\* its callers have found w.balance >= amount, so that it does not throw
deductAmount(w, amount) ==
    [w EXCEPT !.balance = @ - amount, !.totalWithdrawn = @ + amount,
              !.transactions = Append(@, Transaction("debit", amount, w.balance - amount))]

\* this.save() of a loaded document w that one transaction was pushed to:
\* the modified scalar paths are set to the document's values and the new
\* array element is pushed onto the stored array
Saved(stored, w) ==
    [stored EXCEPT !.balance = w.balance, !.totalEarned = w.totalEarned,
                   !.totalWithdrawn = w.totalWithdrawn,
                   !.transactions = Append(@, w.transactions[Len(w.transactions)])]

\* router.post('/credit') up to Wallet.findOne: 400 on a missing or non-positive amount
Credit(userId, amount) ==
    /\ walletReqs' = Append(walletReqs,
          IF amount <= 0
          THEN [WalletRequest("credit", userId, amount, None, "done") EXCEPT !.status = 400]
          ELSE WalletRequest("credit", userId, amount, None, "wallet"))
    /\ bcast' = NoBcast
    /\ UNCHANGED <<nonWalletVars, wallets, withdrawals>>

\* after Wallet.findOne: the stored wallet, or a new one when there is none
CreditFind(k) ==
    /\ walletReqs[k].kind = "credit" /\ walletReqs[k].pc = "wallet"
    /\ walletReqs' = [walletReqs EXCEPT ![k].pc = "save",
                                        ![k].wallet = wallets[walletReqs[k].userId]]
    /\ bcast' = NoBcast
    /\ UNCHANGED <<nonWalletVars, wallets, withdrawals>>

\* wallet.addCredit(amount, ...): 200.  The save of a new wallet is an insert,
\* which the unique index on user rejects when the user has got a wallet since
CreditSave(k) ==
    /\ walletReqs[k].kind = "credit" /\ walletReqs[k].pc = "save"
    /\ LET r == walletReqs[k]
       IN IF r.wallet.has
          THEN /\ wallets' = [wallets EXCEPT
                                ![r.userId] = Saved(@, addCredit(r.wallet, r.amount))]
               /\ walletReqs' = WalletRespond(k, 200)
          ELSE IF wallets[r.userId].has
          THEN /\ wallets' = wallets
               /\ walletReqs' = WalletRespond(k, 500)
          ELSE /\ wallets' = [wallets EXCEPT ![r.userId] = addCredit(NewWallet, r.amount)]
               /\ walletReqs' = WalletRespond(k, 200)
    /\ bcast' = NoBcast
    /\ UNCHANGED <<nonWalletVars, withdrawals>>

\* router.post('/wallets/:userId/debit') up to Wallet.findOne: 400 on a missing
\* or non-positive amount and on a missing or blank description
Debit(userId, amount, described) ==
    /\ walletReqs' = Append(walletReqs,
          IF amount <= 0 \/ ~described
          THEN [WalletRequest("debit", userId, amount, None, "done") EXCEPT !.status = 400]
          ELSE WalletRequest("debit", userId, amount, None, "wallet"))
    /\ bcast' = NoBcast
    /\ UNCHANGED <<nonWalletVars, wallets, withdrawals>>

\* after Wallet.findOne: 404 without a wallet, 400 on an insufficient balance
DebitFind(k) ==
    /\ walletReqs[k].kind = "debit" /\ walletReqs[k].pc = "wallet"
    /\ LET r == walletReqs[k]
       IN walletReqs' =
             IF ~wallets[r.userId].has THEN WalletRespond(k, 404)
             ELSE IF wallets[r.userId].balance < r.amount THEN WalletRespond(k, 400)
             ELSE [walletReqs EXCEPT ![k].pc = "deduct", ![k].wallet = wallets[r.userId]]
    /\ bcast' = NoBcast
    /\ UNCHANGED <<nonWalletVars, wallets, withdrawals>>

\* wallet.deductAmount(amount, description)
DebitDeduct(k) ==
    /\ walletReqs[k].kind = "debit" /\ walletReqs[k].pc = "deduct"
    /\ LET r == walletReqs[k]
       IN wallets' = [wallets EXCEPT ![r.userId] = Saved(@, deductAmount(r.wallet, r.amount))]
    /\ walletReqs' = [walletReqs EXCEPT ![k].pc = "populate", ![k].deducted = TRUE]
    /\ bcast' = NoBcast
    /\ UNCHANGED <<nonWalletVars, withdrawals>>

\* wallet.populate('user', ...): 200
DebitPopulate(k) ==
    /\ walletReqs[k].kind = "debit" /\ walletReqs[k].pc = "populate"
    /\ walletReqs' = WalletRespond(k, 200)
    /\ bcast' = NoBcast
    /\ UNCHANGED <<nonWalletVars, wallets, withdrawals>>

\* router.post('/withdrawal-request') up to Wallet.findOne: 400 on an amount
\* under the minimum and on incomplete bank details
MinWithdrawal == 10

RequestWithdrawal(userId, amount, bankDetails) ==
    /\ walletReqs' = Append(walletReqs,
          IF amount < MinWithdrawal \/ ~bankDetails
          THEN [WalletRequest("withdrawal", userId, amount, None, "done") EXCEPT !.status = 400]
          ELSE WalletRequest("withdrawal", userId, amount, None, "wallet"))
    /\ bcast' = NoBcast
    /\ UNCHANGED <<nonWalletVars, wallets, withdrawals>>

\* after Wallet.findOne: 404 without a wallet, 400 on an insufficient balance
WithdrawalFindWallet(k) ==
    /\ walletReqs[k].kind = "withdrawal" /\ walletReqs[k].pc = "wallet"
    /\ LET r == walletReqs[k]
       IN walletReqs' =
             IF ~wallets[r.userId].has THEN WalletRespond(k, 404)
             ELSE IF wallets[r.userId].balance < r.amount THEN WalletRespond(k, 400)
             ELSE [walletReqs EXCEPT ![k].pc = "pending"]
    /\ bcast' = NoBcast
    /\ UNCHANGED <<nonWalletVars, wallets, withdrawals>>

\* WithdrawalRequest.find({user, status: 'pending'})
PendingOf(userId) ==
    {w \in DOMAIN withdrawals :
        withdrawals[w].user = userId /\ withdrawals[w].status = "pending"}

\* after WithdrawalRequest.findOne: 400 when the user has a pending request
WithdrawalFindPending(k) ==
    /\ walletReqs[k].kind = "withdrawal" /\ walletReqs[k].pc = "pending"
    /\ walletReqs' = IF PendingOf(walletReqs[k].userId) # {}
                     THEN WalletRespond(k, 400)
                     ELSE [walletReqs EXCEPT ![k].pc = "save"]
    /\ bcast' = NoBcast
    /\ UNCHANGED <<nonWalletVars, wallets, withdrawals>>

\* withdrawalRequest.save() of the new request, pending by default: 200
WithdrawalSave(k) ==
    /\ walletReqs[k].kind = "withdrawal" /\ walletReqs[k].pc = "save"
    /\ withdrawals' = Append(withdrawals,
          [user |-> walletReqs[k].userId, amount |-> walletReqs[k].amount,
           status |-> "pending"])
    /\ walletReqs' = [WalletRespond(k, 200) EXCEPT ![k].target = Len(withdrawals) + 1]
    /\ bcast' = NoBcast
    /\ UNCHANGED <<nonWalletVars, wallets>>

Statuses == {"pending", "approved", "rejected", "completed"}

\* router.put('/withdrawal-requests/:id') up to WithdrawalRequest.findById:
\* 400 on a status outside the four
UpdateWithdrawal(id, status) ==
    /\ walletReqs' = Append(walletReqs,
          IF status \notin Statuses
          THEN [WalletRequest(status, None, 0, id, "done") EXCEPT !.status = 400]
          ELSE WalletRequest(status, None, 0, id, "find"))
    /\ bcast' = NoBcast
    /\ UNCHANGED <<nonWalletVars, wallets, withdrawals>>

\* after WithdrawalRequest.findById: 404 without a document
UpdateFind(k) ==
    /\ walletReqs[k].kind \in Statuses /\ walletReqs[k].pc = "find"
    /\ walletReqs' =
          IF walletReqs[k].target \notin DOMAIN withdrawals THEN WalletRespond(k, 404)
          ELSE [walletReqs EXCEPT ![k].pc = "save",
                   ![k].userId = withdrawals[walletReqs[k].target].user,
                   ![k].amount = withdrawals[walletReqs[k].target].amount]
    /\ bcast' = NoBcast
    /\ UNCHANGED <<nonWalletVars, wallets, withdrawals>>

\* withdrawalRequest.status = status; withdrawalRequest.save()
UpdateSave(k) ==
    /\ walletReqs[k].kind \in Statuses /\ walletReqs[k].pc = "save"
    /\ withdrawals' = [withdrawals EXCEPT ![walletReqs[k].target].status = walletReqs[k].kind]
    /\ walletReqs' = [walletReqs EXCEPT
                        ![k].pc = IF walletReqs[k].kind = "completed" THEN "wallet" ELSE "populate"]
    /\ bcast' = NoBcast
    /\ UNCHANGED <<nonWalletVars, wallets>>

\* status 'completed', after Wallet.findOne: the deduction is skipped without
\* a wallet and on an insufficient balance
UpdateFindWallet(k) ==
    /\ walletReqs[k].kind \in Statuses /\ walletReqs[k].pc = "wallet"
    /\ LET r == walletReqs[k]
       IN walletReqs' =
             IF wallets[r.userId].has /\ wallets[r.userId].balance >= r.amount
             THEN [walletReqs EXCEPT ![k].pc = "deduct", ![k].wallet = wallets[r.userId]]
             ELSE [walletReqs EXCEPT ![k].pc = "populate"]
    /\ bcast' = NoBcast
    /\ UNCHANGED <<nonWalletVars, wallets, withdrawals>>

\* wallet.deductAmount(withdrawalRequest.amount, ...)
UpdateDeduct(k) ==
    /\ walletReqs[k].kind \in Statuses /\ walletReqs[k].pc = "deduct"
    /\ LET r == walletReqs[k]
       IN wallets' = [wallets EXCEPT ![r.userId] = Saved(@, deductAmount(r.wallet, r.amount))]
    /\ walletReqs' = [walletReqs EXCEPT ![k].pc = "populate", ![k].deducted = TRUE]
    /\ bcast' = NoBcast
    /\ UNCHANGED <<nonWalletVars, withdrawals>>

\* the two withdrawalRequest.populate calls: 200
UpdatePopulate(k) ==
    /\ walletReqs[k].kind \in Statuses /\ walletReqs[k].pc = "populate"
    /\ walletReqs' = WalletRespond(k, 200)
    /\ bcast' = NoBcast
    /\ UNCHANGED <<nonWalletVars, wallets, withdrawals>>

\* a store call of a wallet or admin route rejects: caught, 500
WalletFail(k) ==
    /\ walletReqs[k].pc # "done"
    /\ walletReqs' = WalletRespond(k, 500)
    /\ bcast' = NoBcast
    /\ UNCHANGED <<nonWalletVars, wallets, withdrawals>>

\* ------------------------------------------------------------ specifications
\* what the clients of the specifications do
ChatUsers == {1, 2}
ChatHandles == 2
ChatRooms == {createRoomId(1, 2)}
Recipients == Users
Contents == {Hello, Blank}
Timestamps == {NoTs}

SendStep ==
    \/ \E i \in DOMAIN sends : SendCreateOk(i)
    \/ \E i \in DOMAIN sends : SendCreateFail(i)
    \/ \E i \in DOMAIN sends : SendPopulateOk(i)
    \/ \E i \in DOMAIN sends : SendPopulateFail(i)

\* live messaging: connections, one room, sendMessage
Next ==
    \/ \E u \in ChatUsers : NextHandle <= ChatHandles /\ Connect(u)
    \/ \E h \in Handles : Disconnect(h)
    \/ \E h \in Handles, r \in ChatRooms : JoinRoom(h, r)
    \/ \E h \in Handles, r \in ChatRooms : LeaveRoom(h, r)
    \/ \E h \in Handles, r \in Recipients, c \in Contents, t \in Timestamps :
          Len(sends) < MaxSends /\ SendMessage(h, r, c, t)
    \/ SendStep

Spec == Init /\ [][Next]_vars

\* the presence registry alone: connections, rooms, disconnects
BadTokens ==
    {NoToken} \cup {Token(u, s, e) : u \in Users, s \in BOOLEAN, e \in {TRUE}}
              \cup {Token(u, FALSE, FALSE) : u \in Users}

NextPresence ==
    \/ \E u \in Users : Connect(u)
    \/ \E t \in BadTokens : Refuse(t)
    \/ \E h \in Handles : Disconnect(h)
    \/ \E h \in Handles, r \in Rooms : JoinRoom(h, r)
    \/ \E h \in Handles, r \in Rooms : LeaveRoom(h, r)
    \/ \E h \in Handles, r \in Rooms : Typing(h, r)
    \/ \E h \in Handles, r \in Rooms : StopTyping(h, r)

SpecPresence == Init /\ [][NextPresence]_vars

\* the chat routes' read path beside live messaging; the store answers
NextChat ==
    \/ \E u \in ChatUsers : NextHandle <= ChatHandles /\ Connect(u)
    \/ \E h \in Handles, r \in ChatRooms : JoinRoom(h, r)
    \/ \E h \in Handles, r \in Recipients, t \in Timestamps :
          Len(sends) < MaxSends /\ SendMessage(h, r, Hello, t)
    \/ \E i \in DOMAIN sends : SendCreateOk(i)
    \/ \E i \in DOMAIN sends : SendPopulateOk(i)
    \/ \E u \in ChatUsers, r \in Recipients : Len(reqs) < MaxReqs /\ GetHistory(u, r)
    \/ \E u \in ChatUsers : Len(reqs) < MaxReqs /\ ListConversations(u)
    \/ \E u \in ChatUsers : Len(reqs) < MaxReqs /\ UnreadCount(u)
    \/ \E k \in DOMAIN reqs : HistoryAuth(k)
    \/ \E k \in DOMAIN reqs : HistoryFind(k)
    \/ \E k \in DOMAIN reqs : HistoryUpdate(k)
    \/ \E k \in DOMAIN reqs : ConversationsFind(k)
    \/ \E k \in DOMAIN reqs : ConversationsAggregate(k)

SpecChat == Init /\ [][NextChat]_vars

\* one send on each path, over every shape of content and recipient
AllContents == {Undefined, Empty, Blank, Hello, Padded, AtMax, OverMax, PaddedOverMax}

NextSend ==
    \/ \E u \in Users : NextHandle <= 1 /\ Connect(u)
    \/ \E h \in Handles, r \in Users \cup {None}, c \in AllContents :
          Len(sends) < 1 /\ SendMessage(h, r, c, NoTs)
    \/ SendStep
    \/ \E u \in Users, r \in Users \cup {None}, c \in AllContents :
          Len(reqs) < 1 /\ HttpSend(u, r, c)
    \/ \E k \in DOMAIN reqs : HttpSendAuth(k)
    \/ \E k \in DOMAIN reqs, populated \in BOOLEAN : HttpSendSave(k, populated)
    \/ \E k \in DOMAIN reqs : RequestFail(k)

SpecSend == Init /\ [][NextSend]_vars

\* one live send whose client stamps it with the sockets that are in the
\* pair's room as it is sent, and connections, joins, leaves and disconnects
\* around it; the sending socket does not leave the room of itself
NextDelivery ==
    \/ \E u \in ChatUsers : Connect(u)
    \/ \E h \in Handles : Disconnect(h)
    \/ \E h \in Handles, r \in ChatRooms : JoinRoom(h, r)
    \/ \E h \in Handles, r \in ChatRooms :
          (\A i \in DOMAIN sends : sends[i].h # h) /\ LeaveRoom(h, r)
    \/ \E h \in Handles, r \in ChatUsers, t \in Stamps :
          /\ Len(sends) < 1
          /\ Stamped(t) = InRoom(createRoomId(sockUser[h], r))
          /\ SendMessage(h, r, Hello, t)
    \/ SendStep

SpecDelivery == Init /\ [][NextDelivery]_vars

\* the Message collection under every operation that writes it: one live
\* send, and the chat routes send, history and mark-read
StoreReqs == 2
StoreIds == 1..(StoreReqs + 1)

NextStore ==
    \/ \E u \in Users : NextHandle <= 1 /\ Connect(u)
    \/ \E h \in Handles, r \in Users :
          Len(sends) < 1 /\ SendMessage(h, r, Hello, NoTs)
    \/ SendStep
    \/ \E u \in Users, r \in Users :
          Len(reqs) < StoreReqs /\ HttpSend(u, r, Padded)
    \/ \E k \in DOMAIN reqs : HttpSendAuth(k)
    \/ \E k \in DOMAIN reqs, populated \in BOOLEAN : HttpSendSave(k, populated)
    \/ \E u \in Users, r \in Users : Len(reqs) < StoreReqs /\ GetHistory(u, r)
    \/ \E k \in DOMAIN reqs : HistoryAuth(k)
    \/ \E k \in DOMAIN reqs : HistoryFind(k)
    \/ \E k \in DOMAIN reqs : HistoryUpdate(k)
    \/ \E u \in Users, m \in StoreIds : Len(reqs) < StoreReqs /\ MarkReadRequest(u, m)
    \/ \E k \in DOMAIN reqs : MarkReadFind(k)
    \/ \E k \in DOMAIN reqs : MarkReadSave(k)
    \/ \E u \in Users : Len(reqs) < StoreReqs /\ ListConversations(u)
    \/ \E k \in DOMAIN reqs : ConversationsFind(k)
    \/ \E k \in DOMAIN reqs : ConversationsAggregate(k)
    \/ \E k \in DOMAIN reqs : RequestFail(k)

SpecStore == Init /\ [][NextStore]_vars

\* the connections routes alone: requests, accepts and removals by identities
\* 1 and 3 between themselves, in every interleaving of their store calls
MaxConnReqs == 3
ConnUsers == {1, 3}
ConnIds == 1..(Len(InitialConnectionDocs) + 1)

NextConnections ==
    \/ \E u \in ConnUsers, r \in ConnUsers \cup {None} :
          Len(connReqs) < MaxConnReqs /\ RequestConnection(u, r)
    \/ \E u \in ConnUsers, c \in ConnIds \cup {None} :
          Len(connReqs) < MaxConnReqs /\ Accept(u, c)
    \/ \E u \in ConnUsers, o \in ConnUsers :
          Len(connReqs) < MaxConnReqs /\ Remove(u, o)
    \/ \E k \in DOMAIN connReqs : RequestFindRecipient(k)
    \/ \E k \in DOMAIN connReqs : RequestFindExisting(k)
    \/ \E k \in DOMAIN connReqs : RequestSave(k)
    \/ \E k \in DOMAIN connReqs : RequestNotify(k)
    \/ \E k \in DOMAIN connReqs : AcceptFind(k)
    \/ \E k \in DOMAIN connReqs : AcceptSave(k)
    \/ \E k \in DOMAIN connReqs : AcceptRequester(k)
    \/ \E k \in DOMAIN connReqs : AcceptRecipient(k)
    \/ \E k \in DOMAIN connReqs : RemoveOwn(k)
    \/ \E k \in DOMAIN connReqs : RemoveOther(k)
    \/ \E k \in DOMAIN connReqs : RemoveRecord(k)
    \/ \E k \in DOMAIN connReqs : ConnFail(k)

SpecConnections == Init /\ [][NextConnections]_vars

\* the wallet of identity 1 and its withdrawal requests under the wallet
\* routes and the admin routes, in every interleaving of their store calls
MaxWalletReqs == 3
WalletUsers == {1, 2}
Amounts == {0, 10, 20}
WithdrawalIds == 1..2

NextWallet ==
    \/ \E u \in WalletUsers, a \in Amounts :
          Len(walletReqs) < MaxWalletReqs /\ Credit(u, a)
    \/ \E u \in WalletUsers, a \in Amounts, d \in BOOLEAN :
          Len(walletReqs) < MaxWalletReqs /\ Debit(u, a, d)
    \/ \E u \in WalletUsers, a \in Amounts, b \in BOOLEAN :
          Len(walletReqs) < MaxWalletReqs /\ RequestWithdrawal(u, a, b)
    \/ \E w \in WithdrawalIds, s \in Statuses \cup {"other"} :
          Len(walletReqs) < MaxWalletReqs /\ UpdateWithdrawal(w, s)
    \/ \E k \in DOMAIN walletReqs : CreditFind(k)
    \/ \E k \in DOMAIN walletReqs : CreditSave(k)
    \/ \E k \in DOMAIN walletReqs : DebitFind(k)
    \/ \E k \in DOMAIN walletReqs : DebitDeduct(k)
    \/ \E k \in DOMAIN walletReqs : DebitPopulate(k)
    \/ \E k \in DOMAIN walletReqs : WithdrawalFindWallet(k)
    \/ \E k \in DOMAIN walletReqs : WithdrawalFindPending(k)
    \/ \E k \in DOMAIN walletReqs : WithdrawalSave(k)
    \/ \E k \in DOMAIN walletReqs : UpdateFind(k)
    \/ \E k \in DOMAIN walletReqs : UpdateSave(k)
    \/ \E k \in DOMAIN walletReqs : UpdateFindWallet(k)
    \/ \E k \in DOMAIN walletReqs : UpdateDeduct(k)
    \/ \E k \in DOMAIN walletReqs : UpdatePopulate(k)
    \/ \E k \in DOMAIN walletReqs : WalletFail(k)

SpecWallet == Init /\ [][NextWallet]_vars

\* ------------------------------------------------------------------ claims
\* the latest connection opened for userId, None when there was none
LastHandle(userId) ==
    LET hs == {h \in Handles : sockUser[h] = userId}
    IN IF hs = {} THEN None ELSE CHOOSE h \in hs : \A k \in hs : k <= h

\* C1: stale-deregistration guard.  While the latest connection of an
\* identity is still open, the presence registry maps the identity to it,
\* whatever earlier connections of the identity have disconnected since.
C1_StaleDeregistrationGuard ==
    \A u \in Users :
        (LastHandle(u) # None /\ conn[LastHandle(u)] = "open")
            => onlineUsers[u] = LastHandle(u)

\* C2: no userOffline for an identity is broadcast while a newer connection
\* of that identity is still live.
C2_NoOfflineWhileNewerLive ==
    bcast.ev = "userOffline"
        => ~\E k \in Handles : /\ k > bcast.from
                               /\ conn[k] = "open"
                               /\ sockUser[k] = bcast.userId

\* the log entries a step appends
Appended == {j \in DOMAIN log' : j > Len(log)}

\* the positions of the events of sendMessage handler i in the log
EventsOf(i, ev) == {j \in DOMAIN log : log[j].op = i /\ log[j].ev = ev}

\* C3: write-then-notify.  Every newMessage or messageSent event is emitted
\* in a step that finds its message already in the store, with the sender,
\* recipient and content the event carries.
C3_WriteThenNotify ==
    [][\A j \in Appended :
          log'[j].ev \in {"newMessage", "messageSent"}
              => /\ log'[j].data.id \in DOMAIN messages
                 /\ messages[log'[j].data.id].sender = log'[j].data.sender
                 /\ messages[log'[j].data.id].recipient = log'[j].data.recipient
                 /\ messages[log'[j].data.id].content = log'[j].data.content]_vars

C3_Witness ==
    \E j \in DOMAIN log : log[j].ev = "newMessage" /\ log[j].to # {}

\* C4: a sendMessage between identities that are not connected persists no
\* Message and emits no newMessage.
C4_LiveSendChecksConnection ==
    \A i \in DOMAIN sends :
        ~IsConnected(sends[i].doc.sender, sends[i].doc.recipient)
            => sends[i].msg = None /\ EventsOf(i, "newMessage") = {}

\* the state a failed send leaves behind
C5_FailureState ==
    /\ Len(messages) = Cardinality({i \in DOMAIN sends : sends[i].msg # None})
    /\ \A i \in DOMAIN sends :
          (sends[i].pc = "error" /\ sends[i].msg = None)
              => /\ Cardinality(EventsOf(i, "messageError")) = 1
                 /\ \A j \in DOMAIN log :
                       log[j].op = i => /\ log[j].ev = "messageError"
                                        /\ log[j].to = {sends[i].h}

\* C5: when Message.create fails, the log holds for that send exactly one
\* event, a messageError addressed to the sending socket alone; the store
\* holds one message per send that was persisted and none for this one; and
\* the handler is over: nothing of it changes again (no retry).
C5_PersistenceFailure ==
    /\ []C5_FailureState
    /\ [][\A i \in DOMAIN sends :
             sends[i].pc = "error"
                 => /\ sends'[i] = sends[i]
                    /\ \A j \in Appended : log'[j].op # i]_vars

C5_Witness ==
    \E i \in DOMAIN sends :
        /\ sends[i].pc = "error" /\ sends[i].msg = None
        /\ ValidDoc(sends[i].doc)
        /\ joined[sends[i].h] # {}

\* C7: per-connection ordering.  Of two sends of one socket to one
\* recipient, the earlier is persisted first and its newMessage is emitted
\* first.
C7_PerConnectionOrder ==
    \A i, j \in DOMAIN sends :
        (i < j /\ sends[i].h = sends[j].h
               /\ sends[i].doc.recipient = sends[j].doc.recipient)
            => /\ (sends[i].msg # None /\ sends[j].msg # None)
                      => sends[i].msg < sends[j].msg
               /\ \A a \in EventsOf(i, "newMessage"), b \in EventsOf(j, "newMessage") :
                      a < b

\* what the step completing send i appends to the log
C8_Delivered(i) ==
    LET op == sends[i]
        room == createRoomId(op.doc.sender, op.doc.recipient)
        new == {j \in Appended : log'[j].ev = "newMessage"}
        sent == {j \in Appended : log'[j].ev = "messageSent"}
    IN /\ Cardinality(new) = 1 /\ Cardinality(sent) = 1
       /\ Appended = new \cup sent
       /\ \A j \in Appended :
             /\ log'[j].op = i
             /\ log'[j].data.id = op.msg
             /\ op.msg \in DOMAIN messages
             /\ messages[op.msg].sender = op.doc.sender
             /\ messages[op.msg].recipient = op.doc.recipient
             /\ log'[j].data.content = op.doc.content
             /\ log'[j].data.content = messages[op.msg].content
             /\ log'[j].data.read = FALSE
       /\ \A j \in new :
             log'[j].to = {k \in Handles : conn[k] = "open" /\ room \in joined[k]}
       /\ \A j \in sent : log'[j].to = {op.h}

\* C8: fan-out.  The step that completes a send appends exactly one
\* newMessage, addressed to every socket then in the pair's room, and one
\* messageSent, addressed to the sending socket; both carry the id under
\* which the message was persisted, the content sent and read = false.  No
\* send ever has a second newMessage or messageSent.
C8_FanOut ==
    /\ [](\A i \in DOMAIN sends :
             /\ Cardinality(EventsOf(i, "newMessage")) <= 1
             /\ Cardinality(EventsOf(i, "messageSent")) <= 1
             /\ sends[i].pc = "done" => Cardinality(EventsOf(i, "newMessage")) = 1)
    /\ [][\A i \in DOMAIN sends :
             (sends[i].pc = "populate" /\ sends'[i].pc = "done") => C8_Delivered(i)]_vars

C8_Witness ==
    \E j \in DOMAIN log, a, b \in Handles :
        /\ log[j].ev = "newMessage"
        /\ a \in log[j].to /\ b \in log[j].to
        /\ sockUser[a] = log[j].data.sender
        /\ sockUser[b] = log[j].data.recipient
        /\ sockUser[a] # sockUser[b]
        /\ sends[log[j].op].h = a
        /\ \E n \in DOMAIN log : log[n].ev = "messageSent" /\ log[n].op = log[j].op

\* what the validation step is to accept: a content that is not blank once
\* trimmed and, trimmed, no longer than the maximum
Acceptable(c) == c.def /\ Trim(c) # Empty /\ StrLength(Trim(c)) <= MaxLength

\* C6: a send persists a message only if its content is not blank after
\* trimming and is within the maximum length, on sendMessage and on
\* POST /chat/send alike.
C6_ContentValidated ==
    /\ \A i \in DOMAIN sends : sends[i].msg # None => Acceptable(sends[i].doc.content)
    /\ \A k \in DOMAIN reqs :
          (reqs[k].kind = "send" /\ reqs[k].status = 201) => Acceptable(reqs[k].content)
    /\ \A m \in DOMAIN messages : Acceptable(messages[m].content)

\* the successful GET /chat/messages/:partner requests of userId
Fetched(userId, partner) ==
    {k \in DOMAIN reqs : /\ reqs[k].kind = "history" /\ reqs[k].status = 200
                         /\ reqs[k].userId = userId /\ reqs[k].partner = partner}

\* the step in which Message.create resolves for send i
C9_Persisted(i) ==
    /\ sends'[i].msg = Len(messages) + 1
    /\ DOMAIN messages' = 1..(Len(messages) + 1)
    /\ messages'[sends'[i].msg].sender = sends[i].doc.sender
    /\ messages'[sends'[i].msg].recipient = sends[i].doc.recipient
    /\ messages'[sends'[i].msg].content = sends[i].doc.content
    /\ messages'[sends'[i].msg].read = FALSE

\* the step completing send i, the recipient having no socket in the room
C9_NotDelivered(i) ==
    LET op == sends[i]
        room == createRoomId(op.doc.sender, op.doc.recipient)
        absent == ~\E k \in Handles : /\ conn[k] = "open" /\ room \in joined[k]
                                      /\ sockUser[k] = op.doc.recipient
    IN (absent /\ op.doc.sender # op.doc.recipient)
           => /\ op.msg \in DOMAIN messages'
              /\ \A j \in Appended : \A k \in log'[j].to : sockUser[k] # op.doc.recipient

\* the step answering GET /chat/conversations request k
C9_Listed(k) ==
    LET me == reqs[k].userId
        list == reqs'[k].result
    IN \A a \in Users \ {me} :
          (\E m \in 1..reqs[k].seen : messages[m].sender = a /\ messages[m].recipient = me)
              => /\ Cardinality({e \in DOMAIN list : list[e].partner = a}) = 1
                 /\ \A e \in DOMAIN list :
                       list[e].partner = a
                           => /\ list[e].unreadCount = Cardinality(UnreadFrom(a, me))
                              /\ Fetched(me, a) = {}
                                    => list[e].unreadCount =
                                          Cardinality({m \in DOMAIN messages :
                                                          /\ messages[m].sender = a
                                                          /\ messages[m].recipient = me})

\* C9: offline delivery.  A message is persisted with read = false and stays
\* unread until its recipient fetches the history with its sender; when no
\* socket of the recipient is in the pair's room as the send completes, no
\* socket of the recipient is sent newMessage; and GET /chat/conversations of
\* the recipient lists the sender of every message it found, once, with
\* the number of that sender's messages still unread: all of them (one for
\* one message) when the recipient has fetched no history with the sender.
C9_OfflineDelivery ==
    /\ [](\A m \in DOMAIN messages :
             messages[m].read => Fetched(messages[m].recipient, messages[m].sender) # {})
    /\ [][/\ \A i \in DOMAIN sends :
                (sends[i].pc = "create" /\ sends'[i].pc = "populate") => C9_Persisted(i)
          /\ \A i \in DOMAIN sends :
                (sends[i].pc = "populate" /\ sends'[i].pc = "done") => C9_NotDelivered(i)
          /\ \A k \in DOMAIN reqs :
                (reqs[k].kind = "conversations" /\ reqs[k].pc = "aggregate"
                     /\ reqs'[k].status = 200) => C9_Listed(k)]_vars

C9_Witness ==
    \E k \in DOMAIN reqs, i \in DOMAIN sends, h \in Handles :
        /\ reqs[k].kind = "conversations" /\ reqs[k].status = 200
        /\ sends[i].pc = "done"
        /\ sends[i].doc.recipient = reqs[k].userId
        /\ sends[i].doc.sender # reqs[k].userId
        /\ conn[h] = "open" /\ sockUser[h] = reqs[k].userId
        /\ \A j \in EventsOf(i, "newMessage") :
              \A t \in log[j].to : sockUser[t] # reqs[k].userId
        /\ \E e \in DOMAIN reqs[k].result :
              /\ reqs[k].result[e].partner = sends[i].doc.sender
              /\ reqs[k].result[e].unreadCount = 1
              /\ reqs[k].result[e].lastMessage = sends[i].msg

\* the step in which the updateMany of history request k resolves
C10_Marked(k) ==
    LET me == reqs[k].userId
        partner == reqs[k].partner
    IN /\ DOMAIN messages' = DOMAIN messages
       /\ \A m \in DOMAIN messages :
             IF messages[m].sender = partner /\ messages[m].recipient = me
                                             /\ ~messages[m].read
             THEN /\ messages'[m].read /\ messages'[m].readAt # None
                  /\ [messages'[m] EXCEPT !.read = FALSE, !.readAt = None] = messages[m]
             ELSE messages'[m] = messages[m]

\* C10: once GET /chat/messages/:partner has answered 200, every message of
\* the partner to the caller that was unread when the request arrived is
\* read, has a read-at and is not counted by unread-count; and the step that
\* marks them changes nothing else: no message of the caller to the partner,
\* no message of another pair, and of the marked ones only read and read-at.
C10_HistoryMarksRead ==
    /\ [](\A k \in DOMAIN reqs :
             (reqs[k].kind = "history" /\ reqs[k].status = 200)
                 => \A m \in reqs[k].before :
                       /\ messages[m].read /\ messages[m].readAt # None
                       /\ m \notin UnreadOf(reqs[k].userId))
    /\ [][\A k \in DOMAIN reqs :
             (reqs[k].kind = "history" /\ reqs[k].pc # "done" /\ reqs'[k].status = 200)
                 => C10_Marked(k)]_vars

C10_Witness ==
    \E k \in DOMAIN reqs :
        /\ reqs[k].kind = "history" /\ reqs[k].status = 200
        /\ reqs[k].before # {}
        /\ \E m \in DOMAIN messages : m \notin reqs[k].before /\ ~messages[m].read
\* the history requests between identities that are not connected
Refused == {k \in DOMAIN reqs : /\ reqs[k].kind = "history"
                               /\ ~(reqs[k].partner \in connections[reqs[k].userId])}

\* C11: GET /chat/messages/:partner of a caller not connected to the partner
\* never issues its find or its update and never answers 200; it carries no
\* messages; it is answered 403 (500 when the store does not answer the
\* lookup of the caller); and the step that answers it leaves every message,
\* its read flag included, as it was.
C11_UnauthorizedHistory ==
    /\ [](\A k \in Refused :
             /\ reqs[k].pc \in {"auth", "done"}
             /\ reqs[k].found = <<>>
             /\ reqs[k].pc = "done" => reqs[k].status \in {403, 500})
    /\ [][\A k \in Refused :
             (reqs[k].pc = "auth" /\ reqs'[k].pc = "done")
                 => /\ messages' = messages
                    /\ reqs'[k].found = <<>>
                    /\ reqs'[k].status # 500 => reqs'[k].status = 403]_vars

C11_Witness ==
    \E k \in DOMAIN reqs :
        /\ reqs[k].kind = "history" /\ reqs[k].status = 403
        /\ reqs[k].before # {}
        /\ \A m \in reqs[k].before : ~messages[m].read

\* C12: every step keeps every persisted message, with its sender, recipient,
\* content and created-at, and never takes a read flag from true to false.
C12_MessageImmutability ==
    [][\A m \in DOMAIN messages :
          /\ m \in DOMAIN messages'
          /\ messages'[m].sender = messages[m].sender
          /\ messages'[m].recipient = messages[m].recipient
          /\ messages'[m].content = messages[m].content
          /\ messages'[m].createdAt = messages[m].createdAt
          /\ messages[m].read => messages'[m].read]_vars

C12_Witness ==
    \E k, n \in DOMAIN reqs :
        /\ reqs[k].kind = "history" /\ reqs[k].status = 200 /\ reqs[k].before # {}
        /\ reqs[n].kind = "markRead" /\ reqs[n].status = 200
        /\ reqs[n].msg \in reqs[k].before
        /\ messages[reqs[n].msg].read
\* the lexicographically lower and higher of the strings of two identities
C13_Lower(a, b) ==
    LET s == IdToString(a)
        t == IdToString(b)
    IN IF \E i \in 1..4 : /\ \A j \in 1..(i - 1) : s[j] = t[j]
                          /\ s[i] < t[i]
       THEN s ELSE t

C13_Higher(a, b) == IF C13_Lower(a, b) = IdToString(a) THEN IdToString(b) ELSE IdToString(a)

\* C13: for the sender A and the recipient B # A of any send,
\* createRoomId(A, B) = createRoomId(B, A) = "chat_" + lower + "_" + higher,
\* lower and higher being the two identity strings in lexicographic order;
\* and two sends of one pair in opposite directions address the same room.
C13_RoomIdSymmetric ==
    /\ \A i \in DOMAIN sends :
          LET a == sends[i].doc.sender
              b == sends[i].doc.recipient
          IN a # b => /\ createRoomId(a, b) = createRoomId(b, a)
                      /\ createRoomId(a, b) =
                            ChatPrefix \o C13_Lower(a, b) \o Underscore \o C13_Higher(a, b)
    /\ \A i, j \in DOMAIN sends :
          (/\ sends[i].doc.sender = sends[j].doc.recipient
           /\ sends[j].doc.sender = sends[i].doc.recipient)
              => NewMessageTargets(sends[i]) = NewMessageTargets(sends[j])

C13_Witness ==
    \E i, j \in DOMAIN sends, a, b \in DOMAIN log :
        /\ sends[i].pc = "done" /\ sends[j].pc = "done"
        /\ sends[i].doc.sender < sends[i].doc.recipient
        /\ sends[j].doc.sender = sends[i].doc.recipient
        /\ sends[j].doc.recipient = sends[i].doc.sender
        /\ log[a].op = i /\ log[a].ev = "newMessage"
        /\ log[b].op = j /\ log[b].ev = "newMessage"
        /\ log[a].to = {sends[i].h, sends[j].h}
        /\ log[b].to = {sends[i].h, sends[j].h}
        /\ sends[i].h # sends[j].h

\* C14: no room is computed for a self-pair: a sendMessage whose recipient is
\* the sender fails at createRoomId, so it emits neither newMessage nor
\* messageSent.
C14_NoSelfRoom ==
    \A i \in DOMAIN sends :
        sends[i].doc.sender = sends[i].doc.recipient
            => /\ EventsOf(i, "newMessage") = {}
               /\ EventsOf(i, "messageSent") = {}
\* C15: the step in which a connection is authenticated and opened enters
\* its identity in onlineUsers with this handle and in userSockets, and
\* broadcasts userOnline for that identity to every connection open at that
\* moment, the new connection itself not among them.
C15_OnlineBroadcast ==
    [][\A h \in Handles :
          (conn[h] = "idle" /\ conn'[h] = "open")
              => /\ sockUser'[h] \in Users
                 /\ onlineUsers'[sockUser'[h]] = h
                 /\ userSockets'[h] = sockUser'[h]
                 /\ bcast'.ev = "userOnline"
                 /\ bcast'.userId = sockUser'[h]
                 /\ bcast'.from = h
                 /\ bcast'.to = {k \in Handles : conn[k] = "open"}
                 /\ h \notin bcast'.to]_vars

C15_Witness ==
    /\ bcast.ev = "userOnline"
    /\ Cardinality(bcast.to) = 2
    /\ onlineUsers[bcast.userId] = bcast.from
    /\ \E k \in bcast.to : sockUser[k] = bcast.userId

\* C16: the step in which the only open connection of an identity
\* disconnects removes the identity from onlineUsers and broadcasts
\* userOffline for it to every other open connection.
C16_OfflineOnLastDisconnect ==
    [][\A h \in Handles :
          (/\ conn[h] = "open" /\ conn'[h] = "closed"
           /\ \A k \in Handles \ {h} : ~(conn[k] = "open" /\ sockUser[k] = sockUser[h]))
              => /\ onlineUsers'[sockUser[h]] = None
                 /\ bcast'.ev = "userOffline"
                 /\ bcast'.userId = sockUser[h]
                 /\ bcast'.to = {k \in Handles \ {h} : conn[k] = "open"}
                 /\ \A k \in bcast'.to : conn'[k] = "open"]_vars

C16_Witness ==
    /\ bcast.ev = "userOffline"
    /\ Cardinality(bcast.to) = 2
    /\ onlineUsers[bcast.userId] = None
    /\ \A k \in Handles : sockUser[k] = bcast.userId => k = bcast.from

\* C17: a connection refused by the authentication middleware is never
\* opened and leaves no state: the step that refuses it changes none of
\* onlineUsers, userSockets and userRooms and broadcasts nothing, and a
\* refused handle has no identity, no userSockets entry, no onlineUsers entry
\* pointing at it and no room.
C17_RefusedLeavesNoState ==
    /\ [](\A h \in Handles :
             conn[h] = "refused"
                 => /\ sockUser[h] = None
                    /\ userSockets[h] = None
                    /\ joined[h] = {}
                    /\ \A u \in Users : onlineUsers[u] # h
                    /\ ~(bcast.ev = "userOnline" /\ bcast.from = h))
    /\ [][\A h \in Handles :
             /\ conn[h] = "refused" => conn'[h] = "refused"
             /\ (conn[h] = "idle" /\ conn'[h] = "refused")
                   => /\ onlineUsers' = onlineUsers
                      /\ userSockets' = userSockets
                      /\ userRooms' = userRooms
                      /\ bcast'.ev = "none"]_vars

C17_Witness ==
    \E h, k \in Handles :
        /\ conn[h] = "refused"
        /\ conn[k] = "open" /\ k > h
        /\ bcast.ev = "userOnline" /\ bcast.from = k

\* C18: a typing or stopTyping event of a handle is forwarded, as userTyping
\* or userStoppedTyping, to every other open handle joined to the room it
\* names and not to the handle itself, and the step leaves the Message
\* collection as it was.
C18_TypingForwarded ==
    /\ [](bcast.ev \in {"userTyping", "userStoppedTyping"}
             => /\ bcast.to = {k \in Handles \ {bcast.from} :
                                  conn[k] = "open" /\ bcast.roomId \in joined[k]}
                /\ bcast.from \notin bcast.to
                /\ bcast.userId = sockUser[bcast.from])
    /\ [][bcast'.ev \in {"userTyping", "userStoppedTyping"} => messages' = messages]_vars

C18_Witness ==
    /\ bcast.ev = "userStoppedTyping"
    /\ bcast.roomId \in joined[bcast.from]
    /\ Cardinality(bcast.to) = 2

\* C19: a typing or stopTyping event naming a room its handle has not joined
\* reaches no handle.
C19_TypingOutsideRoom ==
    (/\ bcast.ev \in {"userTyping", "userStoppedTyping"}
     /\ bcast.roomId \notin joined[bcast.from])
        => bcast.to = {}
\* the pairs of a sendMessage and a POST /chat/send given the same sender,
\* recipient and content
C20_SameInput ==
    {p \in (DOMAIN sends) \X (DOMAIN reqs) :
        /\ reqs[p[2]].kind = "send"
        /\ reqs[p[2]].userId = sends[p[1]].doc.sender
        /\ reqs[p[2]].partner = sends[p[1]].doc.recipient
        /\ reqs[p[2]].content = sends[p[1]].doc.content}

\* C20: a sendMessage and a POST /chat/send given the same input end alike.
\* When the live send has persisted its message the route has not refused
\* the input (400, 403); when the route has persisted its message the live
\* send has not failed on a document the schema rejects; and when both have
\* persisted, the two messages have the same sender, recipient and content
\* and are unread.
C20_SamePathOutcome ==
    \A p \in C20_SameInput :
        LET op == sends[p[1]]
            r == reqs[p[2]]
        IN /\ op.msg # None => r.status \notin {400, 403}
           /\ (r.msg # None /\ op.pc = "error" /\ op.msg = None) => ValidDoc(op.doc)
           /\ (op.msg # None /\ r.msg # None)
                 => /\ messages[op.msg].sender = messages[r.msg].sender
                    /\ messages[op.msg].recipient = messages[r.msg].recipient
                    /\ messages[op.msg].content = messages[r.msg].content
                    /\ ~messages[op.msg].read /\ ~messages[r.msg].read
\* the step answering GET /chat/conversations request k: every connected
\* party with a message to or from the caller among those found is listed
\* once, with the latest message of the pair
C21_Listed(k) ==
    LET me == reqs[k].userId
        list == reqs'[k].result
    IN \A a \in Users \ {me} :
          (/\ a \in connections[me]
           /\ \E m \in 1..reqs[k].seen :
                 \/ messages[m].sender = me /\ messages[m].recipient = a
                 \/ messages[m].sender = a /\ messages[m].recipient = me)
              => /\ Cardinality({e \in DOMAIN list : list[e].partner = a}) = 1
                 /\ \A e \in DOMAIN list :
                       list[e].partner = a
                           => /\ list[e].lastMessage \in DOMAIN messages
                              /\ {messages[list[e].lastMessage].sender,
                                  messages[list[e].lastMessage].recipient} = {me, a}
                              /\ \A n \in DOMAIN messages :
                                    {messages[n].sender, messages[n].recipient} = {me, a}
                                        => messages[n].createdAt
                                              <= messages[list[e].lastMessage].createdAt

\* C21: a message sent between connected identities with a valid content is
\* persisted unread, and from then on GET /chat/conversations of its sender
\* and of its recipient each list the other party exactly once, with as
\* lastMessage the message of the pair with the latest created-at.
C21_SentMessageListed ==
    [][/\ \A i \in DOMAIN sends :
             (sends[i].pc = "create" /\ sends'[i].pc = "populate")
                 => /\ Len(messages') = Len(messages) + 1
                    /\ messages'[Len(messages')] =
                          [sender |-> sockUser[sends[i].h],
                           recipient |-> sends[i].doc.recipient,
                           content |-> sends[i].doc.content,
                           createdAt |-> sends[i].doc.createdAt,
                           read |-> FALSE, readAt |-> None]
       /\ \A k \in DOMAIN reqs :
             (reqs[k].kind = "send" /\ reqs[k].pc = "save" /\ reqs'[k].status = 201)
                 => /\ reqs[k].partner \in connections[reqs[k].userId]
                    /\ Len(messages') = Len(messages) + 1
                    /\ reqs'[k].msg = Len(messages')
                    /\ messages'[Len(messages')].sender = reqs[k].userId
                    /\ messages'[Len(messages')].recipient = reqs[k].partner
                    /\ messages'[Len(messages')].content = Trim(reqs[k].content)
                    /\ ~messages'[Len(messages')].read
       /\ \A k \in DOMAIN reqs :
             (reqs[k].kind = "conversations" /\ reqs[k].pc = "aggregate"
                  /\ reqs'[k].status = 200) => C21_Listed(k)]_vars

C21_Witness ==
    \E k, n \in DOMAIN reqs, i \in DOMAIN sends :
        /\ reqs[k].kind = "conversations" /\ reqs[k].status = 200
        /\ reqs[n].kind = "send" /\ reqs[n].status = 201
        /\ sends[i].msg # None /\ sends[i].msg < reqs[n].msg
        /\ sends[i].doc.sender = reqs[k].userId
        /\ sends[i].doc.recipient = reqs[n].userId
        /\ reqs[n].partner = reqs[k].userId
        /\ reqs[n].userId # reqs[k].userId
        /\ Len(reqs[k].result) = 1
        /\ reqs[k].result[1].partner = reqs[n].userId
        /\ reqs[k].result[1].lastMessage = reqs[n].msg
\* the newMessage entries the step appends to the log
C22_New == {j \in Appended : log'[j].ev = "newMessage"}

\* C22: room membership is read at delivery.  The step that completes a send
\* emits newMessage to exactly the open sockets that are in the pair's room
\* at that step: a socket that was not in the room when the handler was
\* called and is in it now receives the event, and a socket that was in the
\* room then and has left it or disconnected since does not.
C22_MembershipAtDelivery ==
    [][\A i \in DOMAIN sends :
          (sends[i].pc = "populate" /\ sends'[i].pc = "done")
              => LET room == createRoomId(sends[i].doc.sender, sends[i].doc.recipient)
                     before == Stamped(sends[i].doc.createdAt)
                     member(k) == conn[k] = "open" /\ room \in joined[k]
                 IN /\ Cardinality(C22_New) = 1
                    /\ \A j \in C22_New :
                          /\ \A k \in Handles : k \in log'[j].to <=> member(k)
                          /\ \A k \in Handles \ before : member(k) => k \in log'[j].to
                          /\ \A k \in before : ~member(k) => k \notin log'[j].to]_vars

C22_Witness ==
    \E i \in DOMAIN sends, j \in DOMAIN log, k, l \in Handles :
        /\ sends[i].pc = "done"
        /\ log[j].op = i /\ log[j].ev = "newMessage"
        /\ k \notin Stamped(sends[i].doc.createdAt) /\ k \in log[j].to
        /\ l \in Stamped(sends[i].doc.createdAt) /\ l \notin log[j].to
        /\ conn[l] = "open"

\* C23: a disconnect aborts no send.  While the socket of a send in flight
\* is closed, the send's next step stays possible; the step in which
\* Message.create resolves persists the message, and the step that completes
\* the send emits newMessage to the sockets in the pair's room at that step.
C23_NoAbortOnDisconnect ==
    /\ [](\A i \in DOMAIN sends :
             conn[sends[i].h] = "closed"
                 => /\ sends[i].pc = "create" => ENABLED SendCreateOk(i)
                    /\ sends[i].pc = "populate" => ENABLED SendPopulateOk(i))
    /\ [][\A i \in DOMAIN sends :
             conn[sends[i].h] = "closed"
                 => /\ (sends[i].pc = "create" /\ sends'[i].pc = "populate")
                          => /\ Len(messages') = Len(messages) + 1
                             /\ messages'[Len(messages')] = sends[i].doc
                             /\ sends'[i].msg = Len(messages')
                    /\ (sends[i].pc = "populate" /\ sends'[i].pc = "done")
                          => \E j \in Appended :
                                /\ log'[j].ev = "newMessage" /\ log'[j].op = i
                                /\ log'[j].data.id = sends[i].msg
                                /\ log'[j].to =
                                      {k \in Handles :
                                          /\ conn[k] = "open"
                                          /\ createRoomId(sends[i].doc.sender,
                                                          sends[i].doc.recipient) \in joined[k]}
                    /\ sends[i].pc \in {"create", "populate"}
                          => sends'[i].pc \in {"create", "populate", "done", "error"}]_vars

C23_Witness ==
    \E i \in DOMAIN sends, j \in DOMAIN log :
        /\ sends[i].pc = "done" /\ sends[i].msg \in DOMAIN messages
        /\ conn[sends[i].h] = "closed"
        /\ sends[i].h \in Stamped(sends[i].doc.createdAt)
        /\ log[j].op = i /\ log[j].ev = "newMessage"
        /\ log[j].to # {} /\ sends[i].h \notin log[j].to
\* C24: every persisted message was stored by one sendMessage or one
\* POST /chat/send, and its sender is the identity the token of that socket
\* or request was verified for, whatever recipient, content and timestamp the
\* client supplied.
C24_SenderIsAuthenticated ==
    /\ \A i \in DOMAIN sends :
          sends[i].msg # None
              => /\ sends[i].msg \in DOMAIN messages
                 /\ messages[sends[i].msg].sender = sockUser[sends[i].h]
    /\ \A k \in DOMAIN reqs :
          (reqs[k].kind = "send" /\ reqs[k].msg # None)
              => /\ reqs[k].msg \in DOMAIN messages
                 /\ messages[reqs[k].msg].sender = reqs[k].userId
    /\ \A m \in DOMAIN messages :
          Cardinality({i \in DOMAIN sends : sends[i].msg = m})
            + Cardinality({k \in DOMAIN reqs : reqs[k].kind = "send" /\ reqs[k].msg = m}) = 1

C24_Witness ==
    \E i \in DOMAIN sends, k \in DOMAIN reqs :
        /\ sends[i].msg # None
        /\ reqs[k].kind = "send" /\ reqs[k].status = 201
        /\ sends[i].doc.recipient # sockUser[sends[i].h]
        /\ reqs[k].partner # reqs[k].userId
        /\ reqs[k].userId # sockUser[sends[i].h]
        /\ messages[sends[i].msg].sender = sockUser[sends[i].h]
        /\ messages[reqs[k].msg].sender = reqs[k].userId
\* the messages the successful history requests of userId with partner
\* have returned
C25_Returned(userId, partner) ==
    UNION {{reqs[k].found[e] : e \in DOMAIN reqs[k].found} : k \in Fetched(userId, partner)}

\* C25: a message is marked read only by a GET /chat/messages/:partner that
\* returns it: every read message is among the messages some successful
\* history request of its recipient with its sender has returned.
C25_MarksOnlyReturned ==
    \A m \in DOMAIN messages :
        messages[m].read => m \in C25_Returned(messages[m].recipient, messages[m].sender)

\* C26: for every identity with a registered socket, userRooms holds a set
\* for the identity and the set is the rooms that socket has joined and not
\* left.
C26_RoomTracking ==
    \A u \in Users :
        onlineUsers[u] # None
            => /\ userRooms[u].has
               /\ userRooms[u].rooms = joined[onlineUsers[u]]
\* C27: messaging authorization is symmetric.  Once every accept and remove
\* request has been answered, none of them with an error, the connections
\* list of A contains B if and only if the connections list of B contains A.
C27_SymmetricConnections ==
    (\A k \in DOMAIN connReqs : connReqs[k].pc = "done" /\ connReqs[k].status # 500)
        => \A a \in Users, b \in Users : b \in connections[a] <=> a \in connections[b]
\* the sum of the amounts of the transactions of one type
RECURSIVE Total(_, _)
Total(txs, type) ==
    IF txs = <<>> THEN 0
    ELSE Total(Tail(txs), type) + (IF Head(txs).type = type THEN Head(txs).amount ELSE 0)

\* C28: wallet ledger consistency.  The balance of every wallet is not
\* negative, equals the sum of its credit transactions minus the sum of its
\* debit transactions, equals totalEarned - totalWithdrawn, and is the
\* balanceAfter of its latest transaction.
C28_LedgerConsistency ==
    \A u \in Users :
        wallets[u].has =>
            LET w == wallets[u]
            IN /\ w.balance >= 0
               /\ w.balance = Total(w.transactions, "credit") - Total(w.transactions, "debit")
               /\ w.balance = w.totalEarned - w.totalWithdrawn
               /\ w.transactions # <<>>
                     => w.transactions[Len(w.transactions)].balanceAfter = w.balance

\* C29: a user has at most one withdrawal request in status 'pending'.
C29_OnePendingWithdrawal ==
    \A u \in Users : Cardinality(PendingOf(u)) <= 1

\* the admin updates that have deducted the amount of withdrawal request w
Deductions(w) ==
    {k \in DOMAIN walletReqs :
        /\ walletReqs[k].kind \in Statuses
        /\ walletReqs[k].target = w
        /\ walletReqs[k].deducted}

\* C30: once every request has been answered, none of them with an error, a
\* withdrawal request is in status 'completed' only if its amount has been
\* deducted from the wallet, and its amount has been deducted at most once.
C30_CompletedIffDeductedOnce ==
    (\A k \in DOMAIN walletReqs : walletReqs[k].pc = "done" /\ walletReqs[k].status # 500)
        => \A w \in DOMAIN withdrawals :
              /\ withdrawals[w].status = "completed" => Deductions(w) # {}
              /\ Cardinality(Deductions(w)) <= 1
====
